---- MODULE Spec2Model ----
(***************************************************************************)
(* microtojson: json_generate and the generators behind it (src/mtojson.c) *)
(*                                                                         *)
(* A generator of the C code takes the output cursor and a value, asks     *)
(* reduce_rem_len for capacity and then writes bytes through the cursor.   *)
(* Apart from the early `return NULL` after a refused request, its control *)
(* flow depends on the value only.  Each generator is therefore modelled   *)
(* as the operator that lists, in program order, the capacity requests and *)
(* the writes its body performs for a value; the state machine below runs  *)
(* that list one request or one write at a time against the static        *)
(* counter remaining_length and the caller's buffer, and stops at the      *)
(* first refusal as every `if (!out) return NULL;` of the code does.       *)
(*                                                                         *)
(* A C pointer is NULL (the empty tuple) or Ptr(x), the one-element tuple  *)
(* holding what it points to.  A C string is a sequence of one-character   *)
(* strings.  A pointer to struct to_json points to the first node of a     *)
(* sequence of nodes (the array the caller declared); tjs++ is the next    *)
(* index.                                                                  *)
(***************************************************************************)
EXTENDS Integers, Sequences, FiniteSets, TLC

\* ------------------------------------------------------------------------
\* Bounds of the model
\* ------------------------------------------------------------------------

\* width in bits of int and unsigned
IntBits == 8

\* largest capacity len handed to json_generate
MaxLen == 12

\* a capacity that the trees of two and three levels fit in
AmpleLen == 32

\* longest sibling list and longest counted run given to json_generate
MaxSib == 2

\* ------------------------------------------------------------------------
\* Pointers, characters, enum json_to_type
\* ------------------------------------------------------------------------

NULL == <<>>

Ptr(x) == <<x>>

Deref(p) == p[1]

\* a C array: the elements, laid out once
CArray(f) == SubSeq(f, 1, Len(f))

\* the byte '\0'
NUL == "NUL"

UintMod == 2 ^ IntBits

UINT_MAX == UintMod - 1

INT_MAX == (UintMod \div 2) - 1

INT_MIN == 0 - (UintMod \div 2)

t_to_primitive == "primitive"
t_to_array == "array"
t_to_boolean == "boolean"
t_to_hex == "hex"
t_to_integer == "integer"
t_to_null == "null"
t_to_object == "object"
t_to_string == "string"
t_to_uinteger == "uinteger"
t_to_value == "value"

\* struct to_json
to_json(name, value, count, stype, vtype) ==
    [name |-> name, value |-> value, count |-> count, stype |-> stype, vtype |-> vtype]

\* ------------------------------------------------------------------------
\* What a generator does, in program order
\* ------------------------------------------------------------------------

\* a call of reduce_rem_len(n)
Reduce(n) == [op |-> "reduce", n |-> n, s |-> <<>>]

\* bytes stored through the cursor, which advances past them
Put(s) == [op |-> "put", n |-> 0, s |-> s]

\* a return of NULL (or of 0 from json_generate) that no refusal caused
Fail == [op |-> "fail", n |-> 0, s |-> <<>>]

\* reduce_rem_len with its test off by one
reduce_rem_len_late(rem, n) ==
    IF rem + 1 < n THEN [ret |-> 0, rem |-> rem]
    ELSE [ret |-> 1, rem |-> IF rem < n THEN 0 ELSE rem - n]

\* reduce_rem_len: the value of remaining_length after the call and the
\* value returned
reduce_rem_len(rem, n) ==
    IF rem < n THEN [ret |-> 0, rem |-> rem] ELSE [ret |-> 1, rem |-> rem - n]

\* strcpy_val storing without asking for capacity
strcpy_val_uncharged(val, len) == << Reduce(0), Put(SubSeq(val, 1, len)) >>

strcpy_val(val, len) == << Reduce(len), Put(SubSeq(val, 1, len)) >>

strlen(s) == Len(s)

gen_null(val) == strcpy_val(<<"n", "u", "l", "l">>, 4)

gen_boolean(val) ==
    IF val = NULL THEN gen_null(val)
    ELSE IF Deref(val) THEN strcpy_val(<<"t", "r", "u", "e">>, 4)
    ELSE strcpy_val(<<"f", "a", "l", "s", "e">>, 5)

chars_to_escape == <<"\"", "\\">>

\* strchr(begin, c) on the string s, begin being an index into s: the index
\* of the first c at or after begin, 0 for NULL
strchr(s, begin, c) ==
    IF \E i \in begin..Len(s) : s[i] = c
    THEN CHOOSE i \in begin..Len(s) : s[i] = c /\ \A j \in begin..(i - 1) : s[j] # c
    ELSE 0

\* the for loop of gen_string keeping the first character found, not the
\* nearest
nearest_esc_first_found(s, begin) ==
    LET t1 == strchr(s, begin, chars_to_escape[1])
        t2 == strchr(s, begin, chars_to_escape[2])
    IN  IF t1 = 0 THEN t2 ELSE t1

\* the for loop of gen_string: the nearest character to escape, 0 for NULL
nearest_esc(s, begin) ==
    LET t1 == strchr(s, begin, chars_to_escape[1])
        t2 == strchr(s, begin, chars_to_escape[2])
    IN  IF t1 = 0 THEN t2
        ELSE IF t2 = 0 THEN t1
        ELSE IF t1 < t2 THEN t1 ELSE t2

\* the do-while loop of gen_string; end is one past the last character
RECURSIVE gen_string_loop(_, _)
gen_string_loop(s, begin) ==
    LET end == Len(s) + 1
        esc == nearest_esc(s, begin)
        len == IF esc # 0 THEN esc - begin ELSE end - begin
        run == strcpy_val(SubSeq(s, begin, Len(s)), len)
    IN  IF esc # 0
        THEN run \o strcpy_val(<<"\\", s[esc]>>, 2)
                 \o (IF esc + 1 < end THEN gen_string_loop(s, esc + 1) ELSE <<>>)
        ELSE run

gen_string(val) ==
    IF val = NULL THEN gen_null(val)
    ELSE <<Reduce(2), Put(<<"\"">>)>> \o gen_string_loop(Deref(val), 1) \o <<Put(<<"\"">>)>>

\* the digits of utoa in lower case
digit_chars_lower == <<"0", "1", "2", "3", "4", "5", "6", "7", "8", "9", "a", "b", "c", "d", "e", "f">>

digit_chars == <<"0", "1", "2", "3", "4", "5", "6", "7", "8", "9", "A", "B", "C", "D", "E", "F">>

\* the first loop of utoa: e - dst
RECURSIVE utoa_len(_, _)
utoa_len(m, base) == IF m >= base THEN 1 + utoa_len(m \div base, base) ELSE 1

\* the second loop of utoa: the len digits stored from s down to dst
RECURSIVE utoa_digits(_, _, _)
utoa_digits(n, base, len) ==
    IF len = 0 THEN <<>>
    ELSE Append(utoa_digits(n \div base, base, len - 1), digit_chars[(n % base) + 1])

\* utoa asking for capacity digit by digit
utoa_by_digit(n, base) ==
    LET len == utoa_len(n, base)
        digits == utoa_digits(n, base, len)
    IN  << Reduce(1), Put(SubSeq(digits, 1, 1)) >>
            \o (IF len > 1 THEN << Reduce(len - 1), Put(SubSeq(digits, 2, len)) >> ELSE <<>>)

utoa(n, base) ==
    LET len == utoa_len(n, base)
    IN  << Reduce(len), Put(utoa_digits(n, base, len)) >>

gen_hex(val) ==
    IF val = NULL THEN gen_null(val)
    ELSE <<Reduce(2), Put(<<"\"">>)>> \o utoa(Deref(val), 16) \o <<Put(<<"\"">>)>>

\* (unsigned)n
to_unsigned(n) == n % UintMod

\* the magnitude taken in int, where that of INT_MIN does not fit
neg_unsigned_saturating(n) == IF 0 - n > INT_MAX THEN INT_MAX ELSE 0 - n

\* -(unsigned)n
neg_unsigned(n) == (UintMod - to_unsigned(n)) % UintMod

gen_integer(val) ==
    IF val = NULL THEN gen_null(val)
    ELSE LET n == Deref(val)
         IN  IF n < 0
             THEN <<Reduce(1), Put(<<"-">>)>> \o utoa(neg_unsigned(n), 10)
             ELSE utoa(to_unsigned(n), 10)

gen_uinteger(val) ==
    IF val = NULL THEN gen_null(val) ELSE utoa(Deref(val), 10)

gen_value(val) == strcpy_val(Deref(val), strlen(Deref(val)))

\* ------------------------------------------------------------------------
\* Traversal
\* ------------------------------------------------------------------------

RECURSIVE gen_functions(_, _)
RECURSIVE gen_c_array_loop(_, _)
RECURSIVE gen_array_loop(_, _)
RECURSIVE gen_object_loop(_, _)

\* gen_array_type storing the separator after the last element too
gen_array_type_trailing(val, is_last, vtype) ==
    gen_functions(vtype, val) \o <<Reduce(2), Put(<<",", " ">>)>>

gen_array_type(val, is_last, vtype) ==
    gen_functions(vtype, val)
        \o (IF ~is_last THEN <<Reduce(2), Put(<<",", " ">>)>> ELSE <<>>)

\* gen_c_array handing element 0 to gen_array_type every time
c_array_elem_first(tjs, i) ==
    LET v == Deref(tjs.value)
    IN  IF tjs.vtype \in {t_to_boolean, t_to_hex, t_to_integer, t_to_uinteger}
        THEN Ptr(v[1])
        ELSE v[1]

\* the argument gen_c_array hands to gen_array_type for element i: v[i] for
\* the arrays of pointers, &v[i] for the arrays of scalars
c_array_elem(tjs, i) ==
    LET v == Deref(tjs.value)
    IN  IF tjs.vtype \in {t_to_boolean, t_to_hex, t_to_integer, t_to_uinteger}
        THEN Ptr(v[i + 1])
        ELSE v[i + 1]

\* the for loops of gen_c_array, from index i on
gen_c_array_loop(tjs, i) ==
    LET count == Deref(tjs.count)
    IN  IF i < count
        THEN gen_array_type(c_array_elem(tjs, i), i + 1 = count, tjs.vtype)
                 \o gen_c_array_loop(tjs, i + 1)
        ELSE <<>>

\* gen_c_array asking for one bracket only
gen_c_array_one_bracket(tjs) ==
    <<Reduce(1), Put(<<"[">>)>>
        \o (IF Deref(tjs.count) = 0 THEN <<Put(<<"]">>)>>
            ELSE IF tjs.vtype \in {t_to_null, t_to_primitive} THEN <<Fail>>
            ELSE gen_c_array_loop(tjs, 0) \o <<Put(<<"]">>)>>)

\* gen_c_array without the cases t_to_null and t_to_primitive: the switch
\* is left and the bracket closed
gen_c_array_no_reject(tjs) ==
    <<Reduce(2), Put(<<"[">>)>>
        \o (IF Deref(tjs.count) = 0 THEN <<Put(<<"]">>)>>
            ELSE IF tjs.vtype \in {t_to_null, t_to_primitive} THEN <<Put(<<"]">>)>>
            ELSE gen_c_array_loop(tjs, 0) \o <<Put(<<"]">>)>>)

\* gen_c_array looking at the vtype before the count
gen_c_array_type_first(tjs) ==
    <<Reduce(2), Put(<<"[">>)>>
        \o (IF tjs.vtype \in {t_to_null, t_to_primitive} THEN <<Fail>>
            ELSE IF Deref(tjs.count) = 0 THEN <<Put(<<"]">>)>>
            ELSE gen_c_array_loop(tjs, 0) \o <<Put(<<"]">>)>>)

gen_c_array(tjs) ==
    <<Reduce(2), Put(<<"[">>)>>
        \o (IF Deref(tjs.count) = 0 THEN <<Put(<<"]">>)>>
            ELSE IF tjs.vtype \in {t_to_null, t_to_primitive} THEN <<Fail>>
            ELSE gen_c_array_loop(tjs, 0) \o <<Put(<<"]">>)>>)

\* gen_json and gen_primitive on the node tjs points to
gen_json(tjs) ==
    IF tjs.count # NULL THEN gen_c_array(tjs) ELSE gen_functions(tjs.vtype, tjs.value)

gen_primitive(to_json_ptr) ==
    LET tjs == Deref(to_json_ptr)[1]
    IN  IF tjs.count # NULL THEN gen_c_array(tjs) ELSE gen_functions(tjs.vtype, tjs.value)

\* the while loop of gen_array, tjs being node i of the list
gen_array_loop(list, i) ==
    IF list[i].value # NULL
    THEN (IF list[i].count # NULL THEN gen_c_array(list[i])
          ELSE gen_functions(list[i].vtype, list[i].value))
             \o (IF list[i + 1].value # NULL THEN <<Reduce(2), Put(<<",", " ">>)>> ELSE <<>>)
             \o gen_array_loop(list, i + 1)
    ELSE <<>>

\* gen_array taking a node of vtype null without a value for an element
RECURSIVE gen_array_loop_null(_, _)
gen_array_loop_null(list, i) ==
    IF list[i].value # NULL \/ list[i].vtype = t_to_null
    THEN (IF list[i].count # NULL THEN gen_c_array(list[i])
          ELSE gen_functions(list[i].vtype, list[i].value))
             \o (IF list[i + 1].value # NULL \/ list[i + 1].vtype = t_to_null
                 THEN <<Reduce(2), Put(<<",", " ">>)>> ELSE <<>>)
             \o gen_array_loop_null(list, i + 1)
    ELSE <<>>

gen_array_null_elems(val) ==
    IF val = NULL THEN gen_null(val)
    ELSE <<Reduce(2), Put(<<"[">>)>> \o gen_array_loop_null(Deref(val), 1) \o <<Put(<<"]">>)>>

\* gen_array storing the bracket before it asks for the two
gen_array_bracket_first(val) ==
    IF val = NULL THEN gen_null(val)
    ELSE <<Put(<<"[">>), Reduce(2)>> \o gen_array_loop(Deref(val), 1) \o <<Put(<<"]">>)>>

gen_array(val) ==
    IF val = NULL THEN gen_null(val)
    ELSE <<Reduce(2), Put(<<"[">>)>> \o gen_array_loop(Deref(val), 1) \o <<Put(<<"]">>)>>

\* the while loop of gen_object, tjs being node i of the list
gen_object_loop(list, i) ==
    IF list[i].name # NULL
    THEN LET name == Deref(list[i].name)
             len == strlen(name)
         IN  <<Reduce(len + 4), Put(<<"\"">> \o name \o <<"\"", ":", " ">>)>>
                 \o gen_json(list[i])
                 \o (IF list[i + 1].name # NULL THEN <<Reduce(2), Put(<<",", " ">>)>> ELSE <<>>)
                 \o gen_object_loop(list, i + 1)
    ELSE <<>>

\* gen_object rendering a NULL object as the empty object
gen_object_null_empty(val) ==
    IF val = NULL THEN <<Reduce(2), Put(<<"{">>), Put(<<"}">>)>>
    ELSE <<Reduce(2), Put(<<"{">>)>> \o gen_object_loop(Deref(val), 1) \o <<Put(<<"}">>)>>

\* gen_object keeping, of the fields of one name, the last one only
RECURSIVE gen_object_loop_unique(_, _)
gen_object_loop_unique(list, i) ==
    IF list[i].name # NULL
    THEN LET name == Deref(list[i].name)
             len == strlen(name)
             again == list[i + 1].name # NULL /\ Deref(list[i + 1].name) = name
         IN  (IF again THEN <<>>
              ELSE <<Reduce(len + 4), Put(<<"\"">> \o name \o <<"\"", ":", " ">>)>>
                       \o gen_json(list[i])
                       \o (IF list[i + 1].name # NULL THEN <<Reduce(2), Put(<<",", " ">>)>> ELSE <<>>))
                 \o gen_object_loop_unique(list, i + 1)
    ELSE <<>>

gen_object_unique(val) ==
    IF val = NULL THEN gen_null(val)
    ELSE <<Reduce(2), Put(<<"{">>)>> \o gen_object_loop_unique(Deref(val), 1) \o <<Put(<<"}">>)>>

gen_object(val) ==
    IF val = NULL THEN gen_null(val)
    ELSE <<Reduce(2), Put(<<"{">>)>> \o gen_object_loop(Deref(val), 1) \o <<Put(<<"}">>)>>

\* the table gen_functions[]
gen_functions(vtype, val) ==
    CASE vtype = t_to_primitive -> gen_primitive(val)
      [] vtype = t_to_array -> gen_array(val)
      [] vtype = t_to_boolean -> gen_boolean(val)
      [] vtype = t_to_hex -> gen_hex(val)
      [] vtype = t_to_integer -> gen_integer(val)
      [] vtype = t_to_null -> gen_null(val)
      [] vtype = t_to_object -> gen_object(val)
      [] vtype = t_to_string -> gen_string(val)
      [] vtype = t_to_uinteger -> gen_uinteger(val)
      [] vtype = t_to_value -> gen_value(val)

\* json_generate from its first statement to the test of out at its end:
\* tjs points to the first node of the caller's array
json_generate_body(tjs) ==
    LET stype == Deref(tjs)[1].stype
    IN  <<Reduce(1)>>
            \o (CASE stype = t_to_array -> gen_array(tjs)
                  [] stype = t_to_object -> gen_object(tjs)
                  [] stype = t_to_primitive -> gen_primitive(tjs)
                  [] OTHER -> <<Fail>>)

\* ------------------------------------------------------------------------
\* Inputs: the trees handed to json_generate
\* ------------------------------------------------------------------------

\* { NULL }: the node that ends a sibling list
Sentinel == to_json(NULL, NULL, NULL, t_to_primitive, t_to_primitive)

\* a node holding one value
Leaf(vtype, value) == to_json(NULL, value, NULL, t_to_primitive, vtype)

\* a node holding a counted run
Run(vtype, value, n) == to_json(NULL, value, Ptr(n), t_to_primitive, vtype)

\* the nodes without a counted run behind them: one non-NULL value each
\* (the last but one an empty object, inside an object for the one before
\* it), and last a node with a count of 0 and no value
LeafNodes ==
    << Leaf(t_to_integer, Ptr(INT_MIN)),
       Leaf(t_to_string, Ptr(<<"\"">>)),
       Leaf(t_to_boolean, Ptr(TRUE)),
       Leaf(t_to_hex, Ptr(171)),
       Leaf(t_to_uinteger, Ptr(0)),
       Leaf(t_to_value, Ptr(<<"1", ".", "5">>)),
       Leaf(t_to_null, Ptr(0)),
       Leaf(t_to_integer, Ptr(10)),
       Leaf(t_to_string, Ptr(<<>>)),
       Leaf(t_to_boolean, Ptr(FALSE)),
       Leaf(t_to_value, Ptr(<<>>)),
       Leaf(t_to_uinteger, Ptr(UINT_MAX)),
       Leaf(t_to_hex, Ptr(0)),
       Leaf(t_to_string, Ptr(<<"a", "\\", "b">>)),
       Leaf(t_to_integer, Ptr(INT_MAX)),
       Leaf(t_to_primitive, Ptr(<<Leaf(t_to_integer, Ptr(7))>>)),
       Leaf(t_to_string, Ptr(<<"\\", "\"">>)),
       Leaf(t_to_object,
            Ptr(<<to_json(Ptr(<<"k">>), Ptr(<<Sentinel>>), NULL, t_to_object, t_to_object), Sentinel>>)),
       Leaf(t_to_object, Ptr(<<Sentinel>>)),
       Run(t_to_integer, NULL, 0) >>

NumLeaves == Len(LeafNodes)

LeafNode(k) == LeafNodes[k]

NullTypes ==
    <<t_to_array, t_to_boolean, t_to_hex, t_to_integer,
      t_to_null, t_to_object, t_to_string, t_to_uinteger>>

\* node k of the nodes whose value is NULL: a field that renders null in an
\* object, the end of the list in an array
NullNode(k) == Leaf(NullTypes[k], NULL)

RunTypes ==
    <<t_to_integer, t_to_string, t_to_null, t_to_boolean, t_to_array, t_to_hex,
      t_to_object, t_to_primitive, t_to_uinteger, t_to_value>>

\* element i (from 0) of the C array a counted run of the type points to
RunElem(vtype, i) ==
    CASE vtype = t_to_integer -> <<0 - 1, 10, INT_MIN, 0>>[(i % 4) + 1]
      [] vtype = t_to_uinteger -> <<9, UINT_MAX, 0, 10>>[(i % 4) + 1]
      [] vtype = t_to_hex -> <<15, 16, 0, UINT_MAX>>[(i % 4) + 1]
      [] vtype = t_to_boolean -> (i % 2 = 0)
      [] vtype = t_to_string ->
             << Ptr(<<"1">>), NULL, Ptr(<<"\\">>), Ptr(<<>>) >>[(i % 4) + 1]
      [] vtype = t_to_value -> << Ptr(<<"1">>), Ptr(<<>>) >>[(i % 2) + 1]
      [] vtype = t_to_array ->
             << Ptr(<<Leaf(t_to_integer, Ptr(1)), Sentinel>>), NULL, Ptr(<<Sentinel>>) >>[(i % 3) + 1]
      [] vtype = t_to_object ->
             << Ptr(<<Sentinel>>), NULL,
                Ptr(<<to_json(Ptr(<<"k">>), Ptr(1), NULL, t_to_object, t_to_integer), Sentinel>>)
             >>[(i % 3) + 1]
      [] OTHER -> 0

\* node k of the counted runs: every type with every count 0..MaxSib
RunNode(k) ==
    LET vtype == RunTypes[((k - 1) \div (MaxSib + 1)) + 1]
        n == (k - 1) % (MaxSib + 1)
    IN  Run(vtype, Ptr(CArray([i \in 1..(MaxSib + 1) |-> RunElem(vtype, i - 1)])), n)

NumPool0 == NumLeaves + Len(NullTypes) + Len(RunTypes) * (MaxSib + 1)

\* node k of the nodes that hold no sibling list
Pool0(k) ==
    IF k <= NumLeaves THEN LeafNode(k)
    ELSE IF k <= NumLeaves + Len(NullTypes) THEN NullNode(k - NumLeaves)
    ELSE RunNode(k - NumLeaves - Len(NullTypes))

\* the number of sibling lists over a pool of size nodes: the empty list
\* and, from every node of the pool, the 1..MaxSib nodes that follow it
\* (cyclically)
NumWindows(size) == size * MaxSib + 1

\* of sibling list k, the place in the pool of its first node and its length
WindowFirst(k) == ((k - 2) \div MaxSib) + 1

WindowLen(k) == IF k = 1 THEN 0 ELSE ((k - 2) % MaxSib) + 1

\* the place in a pool of size nodes of node j of sibling list k
WindowAt(k, j, size) == ((WindowFirst(k) + j - 2) % size) + 1

\* the key a node gets as an object field
NameOf(node) ==
    IF node.vtype = t_to_boolean THEN <<"a", "b">>
    ELSE IF node.vtype = t_to_null THEN <<>>
    ELSE <<"k">>

\* a node as the field of an object
Named(node) == [node EXCEPT !.name = Ptr(NameOf(node))]

\* sibling list k over Pool0, ended by the sentinel; its nodes are named
\* when it is the list of an object
List0(k, named) ==
    CArray([j \in 1..(WindowLen(k) + 1) |->
        IF j = WindowLen(k) + 1 THEN Sentinel
        ELSE LET node == Pool0(WindowAt(k, j, NumPool0))
             IN  IF named THEN Named(node) ELSE node])

NumLists0 == NumWindows(NumPool0)

NumPool1 == NumPool0 + 2 * NumLists0

\* node k of the nodes of a list one level up: the nodes of Pool0, then an
\* array and then an object over every sibling list over Pool0
Pool1(k) ==
    IF k <= NumPool0 THEN Pool0(k)
    ELSE IF k <= NumPool0 + NumLists0 THEN Leaf(t_to_array, Ptr(List0(k - NumPool0, FALSE)))
    ELSE Leaf(t_to_object, Ptr(List0(k - NumPool0 - NumLists0, TRUE)))

NumLists1 == NumWindows(NumPool1)

\* sibling list k over Pool1 as the array of nodes json_generate is called
\* with: every node carries the root stype
List1(k, named, stype) ==
    CArray([j \in 1..(WindowLen(k) + 1) |->
        IF j = WindowLen(k) + 1 THEN [Sentinel EXCEPT !.stype = stype]
        ELSE LET node == Pool1(WindowAt(k, j, NumPool1))
             IN  [(IF named THEN Named(node) ELSE node) EXCEPT !.stype = stype]])

BadStypes ==
    <<t_to_boolean, t_to_hex, t_to_integer, t_to_null, t_to_string, t_to_uinteger, t_to_value>>

NumBadRoots == 2 * Len(BadStypes)

\* the root objects with a node left without a name before the sentinel:
\* from every node of Pool0 the two nodes that follow, the first or the
\* second of them without its name
NumCutLists == 2 * NumPool0

CutList(k) ==
    LET first == ((k - 1) \div 2) + 1
        cut == ((k - 1) % 2) + 1
    IN  CArray([j \in 1..3 |->
            IF j = 3 THEN [Sentinel EXCEPT !.stype = t_to_object]
            ELSE LET node == Pool0(((first + j - 2) % NumPool0) + 1)
                 IN  [(IF j = cut THEN node ELSE Named(node)) EXCEPT !.stype = t_to_object]])

NumTrees == 2 * NumLists1 + NumPool1 + NumCutLists + NumBadRoots

TreeIds == 1..NumTrees

\* the arrays of nodes json_generate is called with: the sibling lists over
\* Pool1 as root arrays, then as root objects, then every node of Pool1 as
\* a root primitive, then the root objects with a node without a name, then
\* roots whose stype is not valid
Tree(t) ==
    IF t <= NumLists1 THEN List1(t, FALSE, t_to_array)
    ELSE IF t <= 2 * NumLists1 THEN List1(t - NumLists1, TRUE, t_to_object)
    ELSE IF t <= 2 * NumLists1 + NumPool1 THEN <<Pool1(t - 2 * NumLists1)>>
    ELSE IF t <= 2 * NumLists1 + NumPool1 + NumCutLists
    THEN CutList(t - 2 * NumLists1 - NumPool1)
    ELSE LET k == t - 2 * NumLists1 - NumPool1 - NumCutLists
         IN  List1(IF k % 2 = 0 THEN 1 ELSE k + 1, TRUE, BadStypes[((k - 1) \div 2) + 1])

\* ------------------------------------------------------------------------
\* State
\* ------------------------------------------------------------------------

\* the callers of json_generate
Procs == {1, 2}

VARIABLES
    remaining_length,   \* the static counter of mtojson.c
    pc,                 \* per caller: "idle", "run" (inside json_generate), "done" (returned)
    tjs,                \* per caller: the tree passed (its place in Tree), 0 when idle
    len,                \* per caller: the capacity passed
    out,                \* per caller: the memory at the buffer, by offset from start
    cur,                \* per caller: the cursor, out - start
    prog,               \* per caller: what the call goes through, in program order
    ip,                 \* per caller: the place in prog of the next request or write
    failed,             \* per caller: the cursor is NULL
    refused,            \* per caller: reduce_rem_len has returned 0 in this call
    ret,                \* per caller: the value returned
    stale               \* per caller: the counter was not 0 when the call was entered

vars == <<remaining_length, pc, tjs, len, out, cur, prog, ip, failed, refused, ret, stale>>

\* what the caller left in the buffer before the call
FillChars == {"#"}

\* the buffer of len bytes the caller passes
Buffer(n, fill) == [i \in 0..(n - 1) |-> fill]

\* the memory after the bytes s are stored from offset at on
Store(mem, at, s) ==
    [i \in (DOMAIN mem) \cup {at + k - 1 : k \in 1..Len(s)} |->
        IF i >= at /\ i < at + Len(s) THEN s[i - at + 1] ELSE mem[i]]

\* a caller that goes on without testing the cursor
Live_unchecked(isnull) == TRUE

\* `if (!out) return NULL;`: a generator goes on only with a cursor
Live(isnull) == ~isnull

\* the counter set by the first call only
entry_rem_once(rem, n) == IF rem = 0 THEN n ELSE rem

\* `remaining_length = len;`
entry_rem(rem, n) == n

\* json_generate returning without storing the NUL
terminate_no_nul(mem, at) == [mem |-> mem, ret |-> at]

\* `*out = '\0'; return (size_t)(out - start);`
terminate(mem, at) == [mem |-> Store(mem, at, <<NUL>>), ret |-> at]

Init ==
    /\ remaining_length = 0
    /\ pc = [p \in Procs |-> "idle"]
    /\ tjs = [p \in Procs |-> 0]
    /\ len = [p \in Procs |-> 0]
    /\ out = [p \in Procs |-> <<>>]
    /\ cur = [p \in Procs |-> 0]
    /\ prog = [p \in Procs |-> <<>>]
    /\ ip = [p \in Procs |-> 1]
    /\ failed = [p \in Procs |-> FALSE]
    /\ refused = [p \in Procs |-> FALSE]
    /\ ret = [p \in Procs |-> 0]
    /\ stale = [p \in Procs |-> FALSE]

\* json_generate is entered with tree t, whose body is the list of what the
\* call goes through: the counter is set to len
json_generate_call(p, t, body, n, fill) ==
    /\ pc' = [pc EXCEPT ![p] = "run"]
    /\ tjs' = [tjs EXCEPT ![p] = t]
    /\ len' = [len EXCEPT ![p] = n]
    /\ out' = [out EXCEPT ![p] = Buffer(n, fill)]
    /\ prog' = [prog EXCEPT ![p] = body]
    /\ remaining_length' = entry_rem(remaining_length, n)
    /\ stale' = [stale EXCEPT ![p] = (remaining_length # 0)]
    /\ UNCHANGED <<cur, ip, failed, refused, ret>>

\* the next step of the call is a call of reduce_rem_len
request(p) ==
    /\ pc[p] = "run"
    /\ Live(failed[p])
    /\ ip[p] <= Len(prog[p])
    /\ prog[p][ip[p]].op = "reduce"
    /\ LET r == reduce_rem_len(remaining_length, prog[p][ip[p]].n)
       IN  /\ remaining_length' = r.rem
           /\ failed' = [failed EXCEPT ![p] = (r.ret = 0)]
           /\ refused' = [refused EXCEPT ![p] = (r.ret = 0)]
    /\ ip' = [ip EXCEPT ![p] = @ + 1]
    /\ UNCHANGED <<pc, tjs, len, out, cur, prog, ret, stale>>

\* the next step of the call stores bytes through the cursor
write(p) ==
    /\ pc[p] = "run"
    /\ Live(failed[p])
    /\ ip[p] <= Len(prog[p])
    /\ prog[p][ip[p]].op = "put"
    /\ out' = [out EXCEPT ![p] = Store(@, cur[p], prog[p][ip[p]].s)]
    /\ cur' = [cur EXCEPT ![p] = @ + Len(prog[p][ip[p]].s)]
    /\ ip' = [ip EXCEPT ![p] = @ + 1]
    /\ UNCHANGED <<remaining_length, pc, tjs, len, prog, failed, refused, ret, stale>>

\* the next step of the call is the `return NULL` of gen_c_array or the
\* `return 0` of the switch of json_generate
reject(p) ==
    /\ pc[p] = "run"
    /\ Live(failed[p])
    /\ ip[p] <= Len(prog[p])
    /\ prog[p][ip[p]].op = "fail"
    /\ failed' = [failed EXCEPT ![p] = TRUE]
    /\ ip' = [ip EXCEPT ![p] = @ + 1]
    /\ UNCHANGED <<remaining_length, pc, tjs, len, out, cur, prog, refused, ret, stale>>

\* json_generate returns: 0 without a cursor, else it stores the NUL and
\* returns out - start
json_generate_return(p) ==
    /\ pc[p] = "run"
    /\ failed[p] \/ ip[p] > Len(prog[p])
    /\ pc' = [pc EXCEPT ![p] = "done"]
    /\ IF failed[p]
       THEN /\ ret' = [ret EXCEPT ![p] = 0]
            /\ out' = out
       ELSE /\ ret' = [ret EXCEPT ![p] = terminate(out[p], cur[p]).ret]
            /\ out' = [out EXCEPT ![p] = terminate(@, cur[p]).mem]
    /\ UNCHANGED <<remaining_length, tjs, len, cur, prog, ip, failed, refused, stale>>

\* the caller is done with the result and the buffer; only the static
\* counter outlives the call
release(p) ==
    /\ pc[p] = "done"
    /\ pc' = [pc EXCEPT ![p] = "idle"]
    /\ tjs' = [tjs EXCEPT ![p] = 0]
    /\ len' = [len EXCEPT ![p] = 0]
    /\ out' = [out EXCEPT ![p] = <<>>]
    /\ cur' = [cur EXCEPT ![p] = 0]
    /\ prog' = [prog EXCEPT ![p] = <<>>]
    /\ ip' = [ip EXCEPT ![p] = 1]
    /\ failed' = [failed EXCEPT ![p] = FALSE]
    /\ refused' = [refused EXCEPT ![p] = FALSE]
    /\ ret' = [ret EXCEPT ![p] = 0]
    /\ stale' = [stale EXCEPT ![p] = FALSE]
    /\ UNCHANGED remaining_length

\* one caller, any number of calls one after the other
Call ==
    /\ pc[1] = "idle"
    /\ \E t \in TreeIds :
           LET body == json_generate_body(Ptr(Tree(t)))
           IN  \E n \in 0..MaxLen, fill \in FillChars : json_generate_call(1, t, body, n, fill)

Request == request(1)

Write == write(1)

Reject == reject(1)

Return == json_generate_return(1)

Release == release(1)

Next == Call \/ Request \/ Write \/ Reject \/ Return \/ Release

Spec == Init /\ [][Next]_vars

\* one caller, any number of calls one after the other, each with ample
\* capacity: a call fails on the tags of its tree only
AmpleCall ==
    /\ pc[1] = "idle"
    /\ \E t \in TreeIds :
           LET body == json_generate_body(Ptr(Tree(t)))
           IN  \E fill \in FillChars : json_generate_call(1, t, body, AmpleLen, fill)

NextAmple == AmpleCall \/ Request \/ Write \/ Reject \/ Return \/ Release

SpecAmple == Init /\ [][NextAmple]_vars

\* two callers, one call each, their steps interleaved in any order
ConcTreeIds ==
    { 1, NumLists1 + 1, NumTrees,
      2 * NumLists1 + 2, 2 * NumLists1 + 8, 2 * NumLists1 + NumLeaves + 5 }

ConcMaxLen == 5

ConcCall ==
    \E p \in Procs :
        /\ pc[p] = "idle"
        /\ \E t \in ConcTreeIds :
               LET body == json_generate_body(Ptr(Tree(t)))
               IN  \E n \in 0..ConcMaxLen, fill \in FillChars : json_generate_call(p, t, body, n, fill)

ConcRequest == \E p \in Procs : request(p)

ConcWrite == \E p \in Procs : write(p)

ConcReject == \E p \in Procs : reject(p)

ConcReturn == \E p \in Procs : json_generate_return(p)

NextConc == ConcCall \/ ConcRequest \/ ConcWrite \/ ConcReject \/ ConcReturn

SpecConc == Init /\ [][NextConc]_vars

\* the formatters of numbers and strings on their own: json_generate called
\* with a root primitive over every int, every unsigned (in decimal and in
\* hexadecimal) and every string of up to MaxStr characters, plain ones and
\* the two that are escaped
MaxStr == 3

StrChars == <<"a", "\"", "\\">>

\* string k: its characters are the digits of k in base Len(StrChars) + 1,
\* up to the first digit 0
RECURSIVE StrOf(_)
StrOf(k) ==
    IF k % (Len(StrChars) + 1) = 0 THEN <<>>
    ELSE <<StrChars[k % (Len(StrChars) + 1)]>> \o StrOf(k \div (Len(StrChars) + 1))

NumStrs == (Len(StrChars) + 1) ^ MaxStr

NumPrims == 3 * UintMod + NumStrs

PrimTree(k) ==
    IF k <= UintMod THEN <<Leaf(t_to_integer, Ptr(INT_MIN + k - 1))>>
    ELSE IF k <= 2 * UintMod THEN <<Leaf(t_to_uinteger, Ptr(k - UintMod - 1))>>
    ELSE IF k <= 3 * UintMod THEN <<Leaf(t_to_hex, Ptr(k - 2 * UintMod - 1))>>
    ELSE <<Leaf(t_to_string, Ptr(StrOf(k - 3 * UintMod - 1)))>>

\* the array of nodes behind the value of tjs: the trees, then the root
\* primitives above
Input(t) == IF t <= NumTrees THEN Tree(t) ELSE PrimTree(t - NumTrees)

PrimCall ==
    /\ pc[1] = "idle"
    /\ \E k \in 1..NumPrims :
           LET body == json_generate_body(Ptr(PrimTree(k)))
           IN  \E n \in 0..MaxLen, fill \in FillChars :
                   json_generate_call(1, NumTrees + k, body, n, fill)

NextPrim == PrimCall \/ Request \/ Write \/ Return \/ Release

SpecPrim == Init /\ [][NextPrim]_vars

\* ------------------------------------------------------------------------
\* Vocabulary of the properties
\* ------------------------------------------------------------------------

\* the bytes a body stores when no request is refused, from step k on
RECURSIVE RenderFrom(_, _)
RenderFrom(body, k) ==
    IF k > Len(body) THEN <<>>
    ELSE (IF body[k].op = "put" THEN body[k].s ELSE <<>>) \o RenderFrom(body, k + 1)

\* the complete rendering of the tree of a call
Rendering(body) == RenderFrom(body, 1)

\* the tree has no tag the code rejects: the call fails for lack of
\* capacity only
WellFormed(body) == \A k \in 1..Len(body) : body[k].op # "fail"

\* the bytes caller p's call has stored so far, in order
Written(p) == [i \in 1..cur[p] |-> out[p][i - 1]]

\* strlen of the buffer: the offset of its first NUL
BufStrlen(mem) ==
    CHOOSE i \in DOMAIN mem : mem[i] = NUL /\ \A j \in 0..(i - 1) : mem[j] # NUL

\* the node json_generate is called with
Root(p) == Tree(tjs[p])[1]

\* json_generate run to its end on its own, from a counter of any value:
\* the bytes stored and whether it keeps its cursor
RECURSIVE RunFrom(_, _, _, _)
RunFrom(body, k, rem, bytes) ==
    IF k > Len(body) THEN [ok |-> TRUE, bytes |-> bytes]
    ELSE IF body[k].op = "fail" THEN [ok |-> FALSE, bytes |-> bytes]
    ELSE IF body[k].op = "put" THEN RunFrom(body, k + 1, rem, bytes \o body[k].s)
    ELSE IF reduce_rem_len(rem, body[k].n).ret = 0 THEN [ok |-> FALSE, bytes |-> bytes]
    ELSE RunFrom(body, k + 1, reduce_rem_len(rem, body[k].n).rem, bytes)

\* the call (body, n) as the very first call of the program
Alone(body, n) == RunFrom(body, 1, n, <<>>)

\* the root is a primitive holding one value of a type with a formatter
ScalarTypes ==
    {t_to_string, t_to_integer, t_to_uinteger, t_to_hex, t_to_boolean, t_to_null, t_to_value}

RootScalar(p) ==
    /\ tjs[p] > 2 * NumLists1
    /\ tjs[p] <= 2 * NumLists1 + NumPool1
    /\ Root(p).count = NULL
    /\ Root(p).vtype \in ScalarTypes

\* the formatter asks for the capacity of the whole value in one request
OneRequest(node) ==
    \/ node.value = NULL
    \/ node.vtype \in {t_to_null, t_to_boolean, t_to_uinteger, t_to_value}
    \/ node.vtype = t_to_integer /\ Deref(node.value) >= 0

\* the traversal of a node reaches a counted run with a count that is not
\* 0 and vtype null or primitive
RECURSIVE NodeBadRun(_)
RECURSIVE ValueBadRun(_, _)
RECURSIVE ArrayBadRun(_, _)
RECURSIVE ObjectBadRun(_, _)

NodeBadRun(node) ==
    IF node.count # NULL
    THEN /\ Deref(node.count) # 0
         /\ \/ node.vtype \in {t_to_null, t_to_primitive}
            \/ \E i \in 0..(Deref(node.count) - 1) : ValueBadRun(node.vtype, c_array_elem(node, i))
    ELSE ValueBadRun(node.vtype, node.value)

ValueBadRun(vtype, val) ==
    /\ val # NULL
    /\ CASE vtype = t_to_array -> ArrayBadRun(Deref(val), 1)
         [] vtype = t_to_object -> ObjectBadRun(Deref(val), 1)
         [] vtype = t_to_primitive -> NodeBadRun(Deref(val)[1])
         [] OTHER -> FALSE

ArrayBadRun(list, i) ==
    /\ list[i].value # NULL
    /\ (NodeBadRun(list[i]) \/ ArrayBadRun(list, i + 1))

ObjectBadRun(list, i) ==
    /\ list[i].name # NULL
    /\ (NodeBadRun(list[i]) \/ ObjectBadRun(list, i + 1))

\* the root stype is array, object or primitive
ValidRoot(p) == Root(p).stype \in {t_to_array, t_to_object, t_to_primitive}

TreeBadRun(p) ==
    CASE Root(p).stype = t_to_array -> ArrayBadRun(Tree(tjs[p]), 1)
      [] Root(p).stype = t_to_object -> ObjectBadRun(Tree(tjs[p]), 1)
      [] Root(p).stype = t_to_primitive -> NodeBadRun(Root(p))
      [] OTHER -> FALSE

\* the tree is the object { name -> NULL }: one named field without count
\* whose value is NULL, then the sentinel
NullField(p) ==
    /\ Root(p).stype = t_to_object
    /\ Root(p).name # NULL
    /\ Root(p).value = NULL
    /\ Root(p).count = NULL
    /\ Tree(tjs[p])[2].name = NULL

NullLiteral == <<"n", "u", "l", "l">>

\* ------------------------------------------------------------------------
\* Properties
\* ------------------------------------------------------------------------

\* C1: json_generate never stores a byte at an offset >= len of the buffer,
\* the NUL included, whether the call succeeds or fails.
NoWritePastEnd == \A p \in Procs : \A i \in DOMAIN out[p] : i < len[p]

\* a call that succeeded with the NUL in the last byte of the buffer, its
\* tree nested
TightSuccess ==
    /\ pc[1] = "done" /\ ~failed[1]
    /\ ret[1] + 1 = len[1]
    /\ ret[1] >= 8
    /\ out[1][len[1] - 1] = NUL
    /\ Root(1).stype = t_to_object /\ Root(1).vtype \in {t_to_array, t_to_object}

\* C2: for a well-formed tree whose rendering is L bytes long the call
\* succeeds iff len >= L + 1; it returns L then and 0 for every smaller len.
CapacityExact ==
    \A p \in Procs :
        (pc[p] = "done" /\ WellFormed(prog[p])) =>
            LET L == Len(Rendering(prog[p]))
            IN  /\ ~failed[p] <=> len[p] >= L + 1
                /\ ret[p] = (IF len[p] >= L + 1 THEN L ELSE 0)

\* a call refused with one byte less than its rendering and the NUL need
OneByteShort ==
    /\ pc[1] = "done" /\ failed[1] /\ WellFormed(prog[1])
    /\ len[1] = Len(Rendering(prog[1]))
    /\ len[1] >= 8

\* C3: on success the value returned is the number of bytes emitted, a NUL
\* is stored right after them and is not counted, so the value returned is
\* the strlen of the buffer.
ReturnIsLength ==
    \A p \in Procs :
        (pc[p] = "done" /\ ~failed[p]) =>
            /\ ret[p] = cur[p]
            /\ ret[p] = Len(Rendering(prog[p]))
            /\ ret[p] \in DOMAIN out[p]
            /\ out[p][ret[p]] = NUL
            /\ ret[p] = BufStrlen(out[p])

\* a successful call into a buffer longer than needed: what follows the
\* NUL is what the caller left there
SuccessWithSlack ==
    /\ pc[1] = "done" /\ ~failed[1]
    /\ ret[1] >= 5
    /\ len[1] > ret[1] + 2
    /\ out[1][len[1] - 1] # NUL

\* C4 as claimed: json_generate returns 0 only when generation failed.
ZeroOnlyOnFailure == \A p \in Procs : (pc[p] = "done" /\ ret[p] = 0) => failed[p]

\* C5: once reduce_rem_len has refused a request the call stores no byte
\* and does not change the counter again, and its next step is to return 0.
FailurePropagates ==
    [][\A p \in Procs :
          /\ (pc[p] = "run" /\ refused'[p]) =>
                 (out'[p] = out[p] /\ remaining_length' = remaining_length)
          /\ (pc[p] = "run" /\ refused[p]) => (pc'[p] = "done" /\ ret'[p] = 0)]_vars

\* a call refused in the middle of its tree: bytes are stored, steps are
\* left over
RefusedMidway ==
    /\ pc[1] = "done" /\ refused[1] /\ ret[1] = 0
    /\ cur[1] >= 3
    /\ ip[1] + 3 <= Len(prog[1])

\* C6 as claimed: a formatter of a primitive that is entered with less
\* capacity than the whole value takes stores nothing.
FormatterAtomic ==
    \A p \in Procs :
        (pc[p] # "idle" /\ RootScalar(p) /\ len[p] >= 1 /\ len[p] - 1 < Len(Rendering(prog[p]))) =>
            cur[p] = 0

\* C6 as amended: a formatter that is entered with less capacity than the
\* whole value takes fails, stores less than the value and nothing past
\* the capacity; it stores nothing when it asks for the whole value in one
\* request.
FormatterBounded ==
    \A p \in Procs :
        (pc[p] # "idle" /\ RootScalar(p) /\ len[p] >= 1 /\ len[p] - 1 < Len(Rendering(prog[p]))) =>
            /\ cur[p] < Len(Rendering(prog[p]))
            /\ cur[p] <= len[p] - 1
            /\ pc[p] = "done" => (failed[p] /\ ret[p] = 0)
            /\ OneRequest(Root(p)) => cur[p] = 0

\* a string left half written by a call that failed
PartialString ==
    /\ pc[1] = "done" /\ failed[1]
    /\ RootScalar(1) /\ Root(1).vtype = t_to_string
    /\ cur[1] >= 2

\* C7: whatever calls came before, a call returns the value and stores the
\* bytes it returns and stores as the very first call.
ResetEachCall ==
    \A p \in Procs :
        pc[p] = "done" =>
            LET first == Alone(prog[p], len[p])
            IN  /\ failed[p] = ~first.ok
                /\ ret[p] = (IF first.ok THEN Len(first.bytes) ELSE 0)
                /\ Written(p) = first.bytes
                /\ first.ok => out[p][cur[p]] = NUL

\* a call that succeeded although the call before it left the counter set
SuccessAfterCalls ==
    /\ pc[1] = "done" /\ stale[1] /\ ~failed[1]
    /\ ret[1] >= 5
    /\ remaining_length > 0

\* C8 as claimed: with the steps of two calls interleaved, each call stays
\* inside its buffer and returns what it returns alone.
ConcurrentCallsSafe ==
    \A p \in Procs :
        /\ \A i \in DOMAIN out[p] : i < len[p]
        /\ pc[p] = "done" =>
               ret[p] = (IF Alone(prog[p], len[p]).ok THEN Len(Alone(prog[p], len[p]).bytes) ELSE 0)

\* C9: a root stype other than array, object and primitive makes the call
\* return 0 without storing a byte, and so does, as to the 0, a counted run
\* with a count that is not 0 and vtype null or primitive, for every len.
InvalidTagsFail ==
    \A p \in Procs :
        pc[p] # "idle" =>
            /\ ~ValidRoot(p) =>
                   /\ cur[p] = 0
                   /\ out[p] = Buffer(len[p], "#")
                   /\ pc[p] = "done" => ret[p] = 0
            /\ (pc[p] = "done" /\ TreeBadRun(p)) => (failed[p] /\ ret[p] = 0)

\* a call with all the capacity it asked for that failed on a counted run
\* of vtype null or primitive
RunRejected ==
    /\ pc[1] = "done" /\ TreeBadRun(1)
    /\ ~refused[1] /\ failed[1] /\ ret[1] = 0
    /\ cur[1] >= 2

PrimRoot(p) == Input(tjs[p])[1]

\* caller p's call has returned with success from a root primitive of the
\* type, taken from the root primitives of the formatters
Formatted(p, vtype) ==
    /\ pc[p] = "done" /\ ~failed[p]
    /\ tjs[p] > NumTrees
    /\ PrimRoot(p).vtype = vtype

UpperDigits == <<"0", "1", "2", "3", "4", "5", "6", "7", "8", "9", "A", "B", "C", "D", "E", "F">>

\* the numeral of m >= 0 in the base: most significant digit first, no
\* leading zero
RECURSIVE Numeral(_, _)
Numeral(m, base) ==
    IF m < base THEN <<UpperDigits[m + 1]>>
    ELSE Append(Numeral(m \div base, base), UpperDigits[(m % base) + 1])

\* the number of digits of m >= 0 in the base
NumDigits(m, base) ==
    CHOOSE d \in 1..IntBits : base ^ d > m /\ (d = 1 \/ base ^ (d - 1) <= m)

\* s with one backslash added before each double quote and each backslash
RECURSIVE Escaped(_)
Escaped(s) ==
    IF Len(s) = 0 THEN <<>>
    ELSE (IF Head(s) \in {"\"", "\\"} THEN <<"\\", Head(s)>> ELSE <<Head(s)>>) \o Escaped(Tail(s))

\* the number of double quotes and backslashes in s
NumEscaped(s) == Cardinality({i \in 1..Len(s) : s[i] \in {"\"", "\\"}})

\* ------------------------------------------------------------------------
\* Properties of the formatters
\* ------------------------------------------------------------------------

\* C13: for every int n, INT_MIN and INT_MAX included, the integer formatter
\* emits the decimal numeral of n: a '-' iff n < 0, then the digits of the
\* magnitude of n, which for INT_MIN is 2^(w-1).
IntegerDecimal ==
    \A p \in Procs :
        Formatted(p, t_to_integer) =>
            LET n == Deref(PrimRoot(p).value)
            IN  /\ n < 0 => Written(p) = <<"-">> \o Numeral(0 - n, 10)
                /\ n >= 0 => Written(p) = Numeral(n, 10)
                /\ n = INT_MIN => Written(p) = <<"-">> \o Numeral(UintMod \div 2, 10)

\* INT_MIN rendered
MinIntRendered ==
    /\ Formatted(1, t_to_integer)
    /\ Deref(PrimRoot(1).value) = INT_MIN
    /\ Written(1)[1] = "-"
    /\ ret[1] = 1 + NumDigits(UintMod \div 2, 10)

\* C14: for every string s the string formatter emits a double quote, the
\* characters of s in order with one backslash added before each double
\* quote and each backslash, and a double quote: 2 + len(s) + (number of
\* double quotes and backslashes of s) bytes, also for the empty string and
\* for a string that ends with an escaped character.
StringEscaped ==
    \A p \in Procs :
        Formatted(p, t_to_string) =>
            LET s == Deref(PrimRoot(p).value)
            IN  /\ Written(p) = <<"\"">> \o Escaped(s) \o <<"\"">>
                /\ ret[p] = 2 + Len(s) + NumEscaped(s)

\* a string of both escaped characters that ends with one, rendered
EscapedAtEnd ==
    /\ Formatted(1, t_to_string)
    /\ LET s == Deref(PrimRoot(1).value)
       IN  /\ Len(s) = MaxStr
           /\ s[1] = "\\" /\ s[Len(s)] = "\""
    /\ ret[1] >= 2 + MaxStr + 2

\* C17: for every unsigned n, utoa reserves and emits exactly the digits of
\* n in base 10 or 16, most significant first, without a leading zero (0
\* is the digit 0) and with the letters A-F in upper case; the hex formatter
\* puts them between double quotes without a 0x, digits + 2 bytes.
DigitsExact ==
    \A p \in Procs :
        /\ Formatted(p, t_to_uinteger) =>
               LET n == Deref(PrimRoot(p).value)
               IN  /\ Written(p) = Numeral(n, 10)
                   /\ ret[p] = NumDigits(n, 10)
                   /\ len[p] - remaining_length = 1 + NumDigits(n, 10)
                   /\ (n # 0) => Written(p)[1] # "0"
        /\ Formatted(p, t_to_hex) =>
               LET n == Deref(PrimRoot(p).value)
               IN  /\ Written(p) = <<"\"">> \o Numeral(n, 16) \o <<"\"">>
                   /\ ret[p] = NumDigits(n, 16) + 2
                   /\ len[p] - remaining_length = 1 + 2 + NumDigits(n, 16)
                   /\ (n # 0) => Written(p)[2] # "0"

\* UINT_MAX rendered in hexadecimal: letters only
HexLetters ==
    /\ Formatted(1, t_to_hex)
    /\ Deref(PrimRoot(1).value) = UINT_MAX
    /\ Written(1)[2] = "F"
    /\ ret[1] = NumDigits(UINT_MAX, 16) + 2

\* ------------------------------------------------------------------------
\* Vocabulary of the properties of the traversal
\* ------------------------------------------------------------------------

\* caller p's call has returned with success from a root of the stype
Generated(p, stype) ==
    /\ pc[p] = "done" /\ ~failed[p]
    /\ tjs[p] \in TreeIds
    /\ Root(p).stype = stype

\* the number of nodes of an object's list before the first node without
\* a name
NumFields(list) ==
    (CHOOSE i \in 1..Len(list) : list[i].name = NULL /\ \A j \in 1..(i - 1) : list[j].name # NULL) - 1

\* "name": value, for a node of an object
FieldText(node) ==
    <<"\"">> \o Deref(node.name) \o <<"\"", ":", " ">> \o Rendering(gen_json(node))

\* fields i..n of the list, one after the other, ", " between two of them
RECURSIVE JoinFields(_, _, _)
JoinFields(list, i, n) ==
    IF i > n THEN <<>>
    ELSE FieldText(list[i]) \o (IF i < n THEN <<",", " ">> ELSE <<>>) \o JoinFields(list, i + 1, n)

\* the list is that of an empty object, or of an object whose only field
\* is an object of which the same holds
RECURSIVE EmptyChain(_)
EmptyChain(list) ==
    \/ list[1].name = NULL
    \/ /\ list[2].name = NULL
       /\ list[1].count = NULL /\ list[1].vtype = t_to_object /\ list[1].value # NULL
       /\ EmptyChain(Deref(list[1].value))

\* the number of objects around the empty object of such a list
RECURSIVE ChainDepth(_)
ChainDepth(list) ==
    IF list[1].name = NULL THEN 0 ELSE 1 + ChainDepth(Deref(list[1].value))

\* what such a list renders as: {} inside one {"name": } per level
RECURSIVE ChainText(_)
ChainText(list) ==
    IF list[1].name = NULL THEN <<"{", "}">>
    ELSE <<"{", "\"">> \o Deref(list[1].name) \o <<"\"", ":", " ">>
             \o ChainText(Deref(list[1].value)) \o <<"}">>

\* the number of nodes of an array's list before the first node without
\* a value
NumElems(list) ==
    (CHOOSE i \in 1..Len(list) : list[i].value = NULL /\ \A j \in 1..(i - 1) : list[j].value # NULL) - 1

\* what the value v of the vtype, an element of a C array, renders as
ElemText(vtype, v) ==
    CASE vtype = t_to_integer -> IF v < 0 THEN <<"-">> \o Numeral(0 - v, 10) ELSE Numeral(v, 10)
      [] vtype = t_to_uinteger -> Numeral(v, 10)
      [] vtype = t_to_hex -> <<"\"">> \o Numeral(v, 16) \o <<"\"">>
      [] vtype = t_to_boolean -> IF v THEN <<"t", "r", "u", "e">> ELSE <<"f", "a", "l", "s", "e">>
      [] OTHER -> Rendering(gen_functions(vtype, v))

\* elements i..count-1 of the run of a node, ", " between two of them
RECURSIVE JoinElems(_, _)
JoinElems(node, i) ==
    IF i >= Deref(node.count) THEN <<>>
    ELSE ElemText(node.vtype, Deref(node.value)[i + 1])
             \o (IF i + 1 < Deref(node.count) THEN <<",", " ">> ELSE <<>>)
             \o JoinElems(node, i + 1)

\* what a node with a count renders as
RunText(node) == <<"[">> \o JoinElems(node, 0) \o <<"]">>

\* the texts of the siblings of the root of caller p's call: the elements
\* of a root array, the fields of a root object, the elements of the run of
\* a root primitive with a count
Siblings(p) ==
    LET list == Tree(tjs[p])
    IN  CASE Root(p).stype = t_to_array ->
                 CArray([i \in 1..NumElems(list) |-> Rendering(gen_json(list[i]))])
          [] Root(p).stype = t_to_object ->
                 CArray([i \in 1..NumFields(list) |-> FieldText(list[i])])
          [] Root(p).stype = t_to_primitive /\ Root(p).count # NULL ->
                 CArray([i \in 1..Deref(Root(p).count) |->
                            ElemText(Root(p).vtype, Deref(Root(p).value)[i])])
          [] OTHER -> <<>>

\* the offset in the output of the last byte of sibling i, counted as the
\* opening bracket, the siblings up to i and i - 1 separators of 2 bytes
RECURSIVE SiblingEnd(_, _)
SiblingEnd(items, i) ==
    IF i = 0 THEN 1 ELSE SiblingEnd(items, i - 1) + Len(items[i]) + (IF i > 1 THEN 2 ELSE 0)

\* the texts 1..n one after the other, ", " between two of them
RECURSIVE JoinItems(_, _)
JoinItems(items, i) ==
    IF i > Len(items) THEN <<>>
    ELSE items[i] \o (IF i < Len(items) THEN <<",", " ">> ELSE <<>>) \o JoinItems(items, i + 1)

\* the bytes the first k steps of a body ask reduce_rem_len for
RECURSIVE Asked(_, _)
Asked(body, k) ==
    IF k = 0 THEN 0 ELSE Asked(body, k - 1) + (IF body[k].op = "reduce" THEN body[k].n ELSE 0)

\* the bytes the first k steps of a body store
RECURSIVE Stored(_, _)
Stored(body, k) ==
    IF k = 0 THEN 0 ELSE Stored(body, k - 1) + (IF body[k].op = "put" THEN Len(body[k].s) ELSE 0)

\* the bytes caller p's call has been granted so far: what its steps asked
\* for, less the request that was refused
Granted(p) ==
    Asked(prog[p], ip[p] - 1) - (IF refused[p] THEN prog[p][ip[p] - 1].n ELSE 0)

\* the bytes granted to caller p's call and not stored yet
Reserved(p) == Granted(p) - cur[p]

\* the accounts of caller 1's call balance
Accounted ==
    pc[1] # "idle" =>
        /\ cur[1] = Stored(prog[1], ip[1] - 1)
        /\ cur[1] + remaining_length + Reserved(1) = len[1]
        /\ remaining_length >= 0
        /\ ip[1] > 1 /\ len[1] >= 1 => Reserved(1) >= 1
        /\ (pc[1] = "done" /\ ~failed[1]) =>
               (Reserved(1) = 1 /\ ret[1] + 1 + remaining_length = len[1])

\* a step inside caller 1's call does not raise the counter, and a request
\* that is refused leaves it as it is
Monotone ==
    pc[1] # "idle" =>
        /\ remaining_length' <= remaining_length
        /\ (refused'[1] /\ ~refused[1]) =>
               (remaining_length' = remaining_length /\ remaining_length < prog[1][ip[1]].n)

\* ------------------------------------------------------------------------
\* Properties of the traversal
\* ------------------------------------------------------------------------

\* C11: an object renders one "name": value per node before the sentinel,
\* in the order of the list; fields of the same name are all rendered, each
\* with its own value and in its place.
FieldsInOrder ==
    \A p \in Procs :
        Generated(p, t_to_object) =>
            LET list == Tree(tjs[p])
            IN  Written(p) = <<"{">> \o JoinFields(list, 1, NumFields(list)) \o <<"}">>

\* an object rendered whose two fields have one name and two values
DuplicateKeys ==
    /\ Generated(1, t_to_object)
    /\ LET list == Tree(tjs[1])
       IN  /\ NumFields(list) = 2
           /\ Deref(list[1].name) = Deref(list[2].name)
           /\ Rendering(gen_json(list[1])) # Rendering(gen_json(list[2]))
           /\ Len(Rendering(gen_json(list[2]))) >= 2

\* C12: an object whose first node is the sentinel renders {}, 2 bytes; an
\* array whose first node is the sentinel renders []; a counted run with
\* count 0 renders [] whatever its vtype, at the root and as a field; an
\* empty object inside any number of objects of one field each renders {}
\* in the place of the innermost value.
EmptyComposites ==
    \A p \in Procs :
        /\ (Generated(p, t_to_object) /\ Root(p).name = NULL) =>
               (Written(p) = <<"{", "}">> /\ ret[p] = 2)
        /\ (Generated(p, t_to_array) /\ Root(p).value = NULL) =>
               (Written(p) = <<"[", "]">> /\ ret[p] = 2)
        /\ (pc[p] = "done" /\ tjs[p] \in TreeIds /\ Root(p).stype = t_to_primitive
               /\ Root(p).count # NULL /\ Deref(Root(p).count) = 0 /\ len[p] >= 3) =>
               (~failed[p] /\ Written(p) = <<"[", "]">> /\ ret[p] = 2)
        /\ (Generated(p, t_to_object) /\ NumFields(Tree(tjs[p])) = 1
               /\ Root(p).count # NULL /\ Deref(Root(p).count) = 0) =>
               Written(p) = <<"{", "\"">> \o Deref(Root(p).name) \o <<"\"", ":", " ", "[", "]", "}">>
        /\ (Generated(p, t_to_object) /\ EmptyChain(Tree(tjs[p]))) =>
               Written(p) = ChainText(Tree(tjs[p]))

\* the empty object rendered inside three objects
DeepEmpty ==
    /\ Generated(1, t_to_object)
    /\ EmptyChain(Tree(tjs[1]))
    /\ ChainDepth(Tree(tjs[1])) = 3
    /\ ret[1] = 2 + 3 * 7

\* C15: in a root array, in a root object and in the counted run of a root
\* primitive alike, n >= 1 siblings are rendered with n - 1 separators:
\* each sibling in its place, ", " after each but the last, the closing
\* bracket right after the last; in an object each sibling starts with its
\* key followed by ": ".
SeparatorsUniform ==
    \A p \in Procs :
        (pc[p] = "done" /\ ~failed[p] /\ tjs[p] \in TreeIds /\ ValidRoot(p)) =>
            LET items == Siblings(p)
                n == Len(items)
                w == Written(p)
            IN  n >= 1 =>
                    /\ Len(w) = SiblingEnd(items, n) + 1
                    /\ w[Len(w)] \in {"]", "}"}
                    /\ \A i \in 1..n :
                           /\ SubSeq(w, SiblingEnd(items, i) - Len(items[i]) + 1, SiblingEnd(items, i))
                                  = items[i]
                           /\ i < n => (w[SiblingEnd(items, i) + 1] = "," /\ w[SiblingEnd(items, i) + 2] = " ")
                           /\ Root(p).stype = t_to_object =>
                                  LET key == Deref(Tree(tjs[p])[i].name)
                                      at == SiblingEnd(items, i) - Len(items[i])
                                  IN  SubSeq(w, at + 1, at + Len(key) + 4)
                                          = <<"\"">> \o key \o <<"\"", ":", " ">>

\* a root array of two elements rendered, the first a counted run of two
NestedSeparators ==
    /\ Generated(1, t_to_array)
    /\ NumElems(Tree(tjs[1])) = 2
    /\ Root(1).count # NULL
    /\ Deref(Root(1).count) = 2

ReservedUpFront ==
    \A p \in Procs :
        (pc[p] # "idle" /\ tjs[p] \in TreeIds) =>
            /\ (len[p] = 0 \/ (len[p] < 3 /\ Root(p).stype \in {t_to_array, t_to_object})) =>
                   /\ cur[p] = 0
                   /\ out[p] = Buffer(len[p], "#")
                   /\ pc[p] = "done" => (failed[p] /\ ret[p] = 0)
            /\ (cur[p] >= 1 /\ len[p] - remaining_length < 3) =>
                   Root(p).stype \notin {t_to_array, t_to_object}

\* a root array with an element refused with room for the NUL and one
\* bracket only
NoRoomForBrackets ==
    /\ pc[1] = "done" /\ refused[1] /\ ret[1] = 0
    /\ Root(1).stype = t_to_array /\ Root(1).value # NULL
    /\ len[1] = 2
    /\ remaining_length = 1

\* C19: at every point of a call the bytes stored, the counter and the
\* bytes granted but not stored yet (the NUL, closing quotes and brackets)
\* add up to len; the counter never goes up during a call nor below 0, a
\* refused request leaves it unchanged; at a successful return the value
\* returned + 1 + the counter = len.
CapacityAccounting == []Accounted /\ [][Monotone]_vars

\* a call in the middle of a tree: the NUL and two closing brackets are
\* reserved, bytes are stored, capacity is left
OpenBrackets ==
    /\ pc[1] = "run" /\ ~failed[1]
    /\ cur[1] >= 8
    /\ Reserved(1) = 3
    /\ remaining_length >= 1
    /\ ip[1] < Len(prog[1])

\* C20: an array renders the nodes before its first node without a value
\* and nothing of that node or of those after it, whatever its vtype and
\* count: [] when it is the first node; an object renders the fields
\* before its first node without a name and nothing after it.
SentinelStops ==
    \A p \in Procs :
        /\ Generated(p, t_to_array) =>
               /\ Written(p) = <<"[">> \o JoinItems(Siblings(p), 1) \o <<"]">>
               /\ Root(p).value = NULL => ret[p] = 2
        /\ (Generated(p, t_to_object) /\ Len(Tree(tjs[p])) > NumFields(Tree(tjs[p])) + 1) =>
               /\ Written(p) = <<"{">> \o JoinItems(Siblings(p), 1) \o <<"}">>
               /\ Root(p).name = NULL => ret[p] = 2

\* an array rendered as [] whose first node has no value and whose second
\* node has one
ElementsDropped ==
    /\ Generated(1, t_to_array)
    /\ Len(Tree(tjs[1])) = 3
    /\ Root(1).value = NULL
    /\ Tree(tjs[1])[2].value # NULL
    /\ ret[1] = 2

====
